---- MODULE Spec2Model ----
(***************************************************************************)
(* Voice-Command-AI: the recognition hook (useSpeechRecognition), the      *)
(* conversation controller (App.handleUserMessage), the command executor   *)
(* (App.executeCommands), the speech output helper (App.speak) and the     *)
(* extraction service (geminiService), as one state machine.               *)
(*                                                                         *)
(* Text is a sequence of one-character strings, so that trimming, case     *)
(* folding, punctuation stripping and word splitting are computed.         *)
(* A nullable value is <<>> (null) or <<v>> (the value v).                 *)
(***************************************************************************)
EXTENDS Integers, Sequences, FiniteSets, TLC

VARIABLES
    \* ---- useSpeechRecognition ----
    shouldBeListening,  \* ref: the user intends the recognizer to be on
    isListening,        \* state: a session is reported running
    error,              \* state: user-visible recognizer error, "null" when none
    transcript,         \* state: the visible interim transcript
    processedIndex,     \* ref: read cursor into event.results
    silenceTimer,       \* ref: the pending 3 s timeout and what its closure captured
    restartTimers,      \* pending 100 ms auto-restart timeouts
    \* ---- the platform's recognizer ----
    recState,           \* "idle" | "starting" | "running" | "stopping" | "ending"
    results,            \* event.results of the current session (cumulative)
    batches,            \* result events the platform delivered so far
    \* ---- history of the hook's interface ----
    finalized,          \* texts handed to onSpeechEnd, in order
    stopRequested,      \* stopListening() was the last of start/stopListening
    skipped,            \* positions of results that arrived while input was ignored
    delivered,          \* positions of results handed to onSpeechEnd, this session
    \* ---- App ----
    isActiveSession,
    messages,           \* the chat log
    isProcessing,
    pendingCommands,    \* Null or Some(command list)
    smartHomeState,
    turns,              \* handleUserMessage calls so far
    \* ---- App: speech output ----
    isTtsEnabled,
    isSpeaking,
    synth,              \* the platform synthesizer's queue, head first
    cancelled,          \* cancelled utterances whose end/error event is still due
    settleTimers,       \* pending 500 ms timeouts of utterance.onend
    \* ---- geminiService ----
    apiKey,             \* process.env.API_KEY is set
    chatSession,        \* Null or Some(number of messages sent on the session)
    inflight            \* sendMessage calls awaiting their reply, with the turn's closure

recVars == <<shouldBeListening, isListening, error, transcript, processedIndex,
             silenceTimer, restartTimers, recState, results, batches,
             finalized, stopRequested, skipped, delivered>>
ttsVars == <<isTtsEnabled, isSpeaking, synth, cancelled, settleTimers>>
ctlVars == <<messages, isProcessing, pendingCommands, smartHomeState, turns,
             apiKey, chatSession, inflight>>
appVars == <<isActiveSession, ttsVars, ctlVars>>
vars == <<recVars, appVars>>

\* ------------------------------------------------------------------ bounds
MaxBatches == 3          \* result events the platform delivers
MaxRestartTimers == 2    \* restart timeouts pending at once
MaxSynthQueue == 2       \* utterances queued at the synthesizer when a session is toggled on
MaxTurns == 2            \* handleUserMessage calls

\* -------------------------------------------------------------------- text
Null == <<>>
Some(v) == <<v>>

IsSpace(c) == c = " "

RECURSIVE TrimStart(_)
TrimStart(s) ==
    IF s = <<>> THEN <<>>
    ELSE IF IsSpace(Head(s)) THEN TrimStart(Tail(s)) ELSE s

RECURSIVE TrimEnd(_)
TrimEnd(s) ==
    IF s = <<>> THEN <<>>
    ELSE IF IsSpace(s[Len(s)]) THEN TrimEnd(SubSeq(s, 1, Len(s) - 1)) ELSE s

Trim(s) == TrimEnd(TrimStart(s))

Upper == <<"A","B","C","D","E","F","G","H","I","J","K","L","M",
           "N","O","P","Q","R","S","T","U","V","W","X","Y","Z">>
Lower == <<"a","b","c","d","e","f","g","h","i","j","k","l","m",
           "n","o","p","q","r","s","t","u","v","w","x","y","z">>
Digits == <<"0","1","2","3","4","5","6","7","8","9">>

InSeq(c, s) == \E i \in 1..Len(s) : s[i] = c
IndexIn(c, s) == CHOOSE i \in 1..Len(s) : s[i] = c

LowerChar(c) == IF InSeq(c, Upper) THEN Lower[IndexIn(c, Upper)] ELSE c
UpperChar(c) == IF InSeq(c, Lower) THEN Upper[IndexIn(c, Lower)] ELSE c

ToLowerCase(s) == [i \in 1..Len(s) |-> LowerChar(s[i])]
ToUpperCase(s) == [i \in 1..Len(s) |-> UpperChar(s[i])]

\* s.includes(sub)
Includes(s, sub) ==
    \E i \in 0..(Len(s) - Len(sub)) : SubSeq(s, i + 1, i + Len(sub)) = sub

\* s.startsWith(p)
StartsWith(s, p) == Len(p) <= Len(s) /\ SubSeq(s, 1, Len(p)) = p

\* text.replace(/[.,!?;]/g, '')
IsPunct(c) == c \in {".", ",", "!", "?", ";"}
StripPunct(s) == SelectSeq(s, LAMBDA c : ~IsPunct(c))

\* const cleanedText = text.toLowerCase().trim().replace(/[.,!?;]/g, '')
CleanedText(text) == StripPunct(Trim(ToLowerCase(text)))

\* cleanedText.split(/\s+/).length: one more than the number of whitespace runs
WordCount(s) ==
    1 + Cardinality({i \in 1..Len(s) :
                        IsSpace(s[i]) /\ (i = 1 \/ ~IsSpace(s[i - 1]))})

\* the regular expression's \w and \b
IsWordChar(c) == InSeq(c, Upper) \/ InSeq(c, Lower) \/ InSeq(c, Digits) \/ c = "_"
Boundary(s, i) ==   \* between s[i] and s[i+1]
    (i >= 1 /\ i <= Len(s) /\ IsWordChar(s[i])) # (i + 1 <= Len(s) /\ i + 1 >= 1 /\ IsWordChar(s[i + 1]))

\* new RegExp(`\\b${keyword}\\b`, 'i').test(s)
WholeWordMatch(keyword, s) ==
    \E i \in 0..(Len(s) - Len(keyword)) :
        /\ ToLowerCase(SubSeq(s, i + 1, i + Len(keyword))) = ToLowerCase(keyword)
        /\ Boundary(s, i)
        /\ Boundary(s, i + Len(keyword))

rejectionKeywords ==
    { <<"n","o">>, <<"n","o","p","e">>, <<"c","a","n","c","e","l">>,
      <<"w","r","o","n","g">>, <<"i","n","c","o","r","r","e","c","t">>,
      <<"s","t","o","p">> }

confirmationKeywords ==
    { <<"y","e","s">>, <<"y","e","a","h">>, <<"y","e","p">>,
      <<"c","o","r","r","e","c","t">>, <<"r","i","g","h","t">>, <<"s","u","r","e">>,
      <<"o","k">>, <<"o","k","a","y">>, <<"d","o"," ","i","t">>,
      <<"e","x","e","c","u","t","e">>, <<"c","o","n","f","i","r","m">>,
      <<"e","x","a","c","t","l","y">>, <<"p","e","r","f","e","c","t">>,
      <<"g","o"," ","a","h","e","a","d">>, <<"p","r","o","c","e","e","d">>,
      <<"a","g","r","e","e">>, <<"s","o","u","n","d","s"," ","g","o","o","d">> }

IsAffirmative(cleaned) == \E k \in confirmationKeywords : WholeWordMatch(k, cleaned)

RestartWord == <<"r","e","s","t","a","r","t">>

\* -------------------------------------------------------- geminiService
\* A parameter value is typed, as JSON.stringify and Number() tell the types
\* apart: <<"str", text>>, <<"num", n>>, <<"bool", b>>.
Str(v) == <<"str", v>>
Num(v) == <<"num", v>>
Bool(v) == <<"bool", v>>

IsDigits(s) == \A i \in 1..Len(s) : InSeq(s[i], Digits)

RECURSIVE DigitsValue(_)
DigitsValue(s) ==
    IF s = <<>> THEN 0
    ELSE 10 * DigitsValue(SubSeq(s, 1, Len(s) - 1)) + (IndexIn(s[Len(s)], Digits) - 1)

\* Number(text): Null is NaN; blank text is 0; decimal digits are their value
NumberOfText(s) ==
    IF Trim(s) = <<>> THEN Some(0)
    ELSE IF IsDigits(Trim(s)) THEN Some(DigitsValue(Trim(s)))
    ELSE Null

\* analyzeCommand's cast of one raw parameter value (always text)
CastValue(val) ==
    IF ToLowerCase(val) = <<"t","r","u","e">> THEN Bool(TRUE)
    ELSE IF ToLowerCase(val) = <<"f","a","l","s","e">> THEN Bool(FALSE)
    ELSE IF NumberOfText(val) # Null /\ Trim(val) # <<>>
         THEN Num(NumberOfText(val)[1])
    ELSE Str(val)

\* parameters[p.key] = val on an object that keeps insertion order
HasKey(params, key) == \E i \in 1..Len(params) : params[i].key = key
SetParam(params, key, val) ==
    IF HasKey(params, key)
    THEN [i \in 1..Len(params) |->
             IF params[i].key = key THEN [key |-> key, value |-> val] ELSE params[i]]
    ELSE Append(params, [key |-> key, value |-> val])

RECURSIVE CastParameters(_)
CastParameters(raw) ==
    IF raw = <<>> THEN <<>>
    ELSE LET rest == CastParameters(SubSeq(raw, 1, Len(raw) - 1))
             p == raw[Len(raw)]
         IN  IF p.key # "" THEN SetParam(rest, p.key, CastValue(p.value)) ELSE rest

\* rawData.commands.map(cmd => ({summary, action, parameters}))
ExtractCommands(rawCommands) ==
    [i \in 1..Len(rawCommands) |->
        [summary |-> rawCommands[i].summary,
         action |-> rawCommands[i].action,
         parameters |-> CastParameters(rawCommands[i].parameters)]]

\* Object.keys(obj).sort() for the keys the replies use
KeyRank(key) ==
    CASE key = "device" -> 1
      [] key = "temperature" -> 2
      [] key = "value" -> 3

\* faulty variant: the parameters in insertion order
SortObjUnsorted(params) == params

\* sortObj(cmd.parameters): the same entries, keys ascending
SortObj(params) ==
    [i \in 1..Len(params) |->
        CHOOSE p \in {params[j] : j \in 1..Len(params)} :
            Cardinality({q \in {params[j] : j \in 1..Len(params)} :
                            KeyRank(q.key) < KeyRank(p.key)}) = i - 1]

\* serialize(cmd) = JSON.stringify({action, parameters: sortObj(parameters)})
Serialize(cmd) == <<cmd.action, SortObj(cmd.parameters)>>

areCommandsEqual(cmdsA, cmdsB) ==
    IF Len(cmdsA) # Len(cmdsB) THEN FALSE
    ELSE \A i \in 1..Len(cmdsA) : Serialize(cmdsA[i]) = Serialize(cmdsB[i])

\* ------------------------------------------------------ executeCommands
GetParam(params, key) ==
    IF HasKey(params, key)
    THEN Some((CHOOSE p \in {params[j] : j \in 1..Len(params)} : p.key = key).value)
    ELSE Null

\* JavaScript truthiness of a parameter value
Truthy(val) ==
    CASE val[1] = "str" -> val[2] # <<>>
      [] val[1] = "num" -> val[2] # 0
      [] val[1] = "bool" -> val[2]

RECURSIVE NatToText(_)
NatToText(n) ==
    IF n < 10 THEN <<Digits[n + 1]>>
    ELSE NatToText(n \div 10) \o <<Digits[(n % 10) + 1]>>

\* String(value)
StringOf(val) ==
    CASE val[1] = "str" -> val[2]
      [] val[1] = "num" -> NatToText(val[2])
      [] val[1] = "bool" -> IF val[2] THEN <<"t","r","u","e">> ELSE <<"f","a","l","s","e">>

\* Number(value), Null for NaN
NumberOf(val) ==
    CASE val[1] = "str" -> NumberOfText(val[2])
      [] val[1] = "num" -> Some(val[2])
      [] val[1] = "bool" -> Some(IF val[2] THEN 1 ELSE 0)

T_living == <<"l","i","v","i","n","g">>
T_light == <<"l","i","g","h","t">>
T_lamp == <<"l","a","m","p">>
T_front == <<"f","r","o","n","t">>
T_door == <<"d","o","o","r">>
T_lock == <<"l","o","c","k">>
T_living_room_light ==
    <<"l","i","v","i","n","g","_","r","o","o","m","_","l","i","g","h","t">>
T_front_door_lock == <<"f","r","o","n","t","_","d","o","o","r","_","l","o","c","k">>
T_thermostat == <<"t","h","e","r","m","o","s","t","a","t">>
A_TURN_ON == <<"T","U","R","N","_","O","N">>
A_TURN_OFF == <<"T","U","R","N","_","O","F","F">>
A_DEVICE == <<"_","D","E","V","I","C","E">>
A_LOCK == <<"L","O","C","K">>
A_UNLOCK == <<"U","N","L","O","C","K">>
A_SET_TEMPERATURE == <<"S","E","T","_","T","E","M","P","E","R","A","T","U","R","E">>

\* const device = cmd.parameters.device ? String(...).toLowerCase() : ''
DeviceOf(cmd) ==
    LET d == GetParam(cmd.parameters, "device")
    IN  IF d # Null /\ Truthy(d[1]) THEN ToLowerCase(StringOf(d[1])) ELSE <<>>

\* faulty variant: only the canonical key matches the light
IsLivingRoomLightExact(device) == device = T_living_room_light

IsLivingRoomLight(device) ==
    \/ device = T_living_room_light
    \/ Includes(device, T_living) /\ (Includes(device, T_light) \/ Includes(device, T_lamp))

IsFrontDoorLock(device) ==
    \/ device = T_front_door_lock
    \/ Includes(device, T_front) /\ (Includes(device, T_door) \/ Includes(device, T_lock))

IsThermostat(device, action) == device = T_thermostat \/ action = A_SET_TEMPERATURE

\* const val = cmd.parameters.temperature || cmd.parameters.value
ThermostatVal(cmd) ==
    LET t == GetParam(cmd.parameters, "temperature")
    IN  IF t # Null /\ Truthy(t[1]) THEN t ELSE GetParam(cmd.parameters, "value")

\* faulty variant: a command that matches no device switches the light off
ApplyCommandFallback(st, cmd) ==
    IF \/ IsLivingRoomLight(DeviceOf(cmd))
       \/ IsFrontDoorLock(DeviceOf(cmd))
       \/ IsThermostat(DeviceOf(cmd), ToUpperCase(cmd.action))
    THEN st
    ELSE [st EXCEPT !.livingRoomLight = FALSE]

\* the body of commands.forEach, on newState
ApplyCommand(st, cmd) ==
    LET action == ToUpperCase(cmd.action)
        device == DeviceOf(cmd)
        val == ThermostatVal(cmd)
        s1 == IF IsLivingRoomLight(device)
              THEN IF action = A_TURN_OFF \/ action = A_TURN_OFF \o A_DEVICE
                   THEN [st EXCEPT !.livingRoomLight = FALSE]
                   ELSE IF action = A_TURN_ON \/ action = A_TURN_ON \o A_DEVICE
                   THEN [st EXCEPT !.livingRoomLight = TRUE]
                   ELSE st
              ELSE st
        s2 == IF IsFrontDoorLock(device)
              THEN IF action = A_UNLOCK THEN [s1 EXCEPT !.frontDoorLocked = FALSE]
                   ELSE IF action = A_LOCK THEN [s1 EXCEPT !.frontDoorLocked = TRUE]
                   ELSE s1
              ELSE s1
    IN  IF /\ IsThermostat(device, action)
           /\ val # Null
           /\ Truthy(val[1])
           /\ NumberOf(val[1]) # Null
        THEN [s2 EXCEPT !.thermostatTemp = NumberOf(val[1])[1]]
        ELSE s2

RECURSIVE ApplyCommands(_, _)
ApplyCommands(st, commands) ==
    IF commands = <<>> THEN st
    ELSE ApplyCommands(ApplyCommand(st, Head(commands)), Tail(commands))

\* const summaryText = commands.length === 1 ? commands[0].summary : `${n} actions executed.`
\* (a text assembled from pieces is the sequence of its pieces)
SuccessText(commands) ==
    IF Len(commands) = 1
    THEN <<"Executed: ", commands[1].summary>>
    ELSE <<"Executed: ">> \o NatToText(Len(commands)) \o <<" actions executed.">>

\* event.results[i][0].transcript of one recognizer result
Fragments == { <<" ">>, <<"o", "k">> }

\* ------------------------------------------------- useSpeechRecognition
\* silenceTimer: whether a timeout is pending, and what its closure holds:
\* currentSegment, event.results.length, and (for the history) the cursor the
\* segment was built from
NoTimer == [armed |-> FALSE, segment |-> <<>>, len |-> 0, from |-> 0]

\* the hook reads the caller's flag through shouldIgnoreInputRef
shouldIgnoreInputRef == isSpeaking

\* for (i = processedIndex; i < event.results.length; ++i) currentSegment += ...
RECURSIVE CurrentSegment(_, _)
CurrentSegment(res, from) ==
    IF from >= Len(res) THEN <<>>
    ELSE res[from + 1] \o CurrentSegment(res, from + 1)

\* recognition.start(): a session begins unless one exists (then it throws,
\* and both callers catch)
RecognitionStart ==
    IF recState = "idle"
    THEN /\ recState' = "starting"
         /\ results' = <<>>
         /\ skipped' = {}
         /\ delivered' = {}
    ELSE UNCHANGED <<recState, results, skipped, delivered>>

\* recognition.stop(): a running session winds down and one last result may
\* still come; a session that has not started yet just ends
RecognitionStop ==
    recState' = IF recState = "running" THEN "stopping"
                ELSE IF recState = "starting" THEN "ending"
                ELSE recState

\* startListening, but for setTranscript('')
StartListening ==
    /\ error' = "null"
    /\ shouldBeListening' = TRUE
    /\ processedIndex' = 0
    /\ RecognitionStart
    /\ stopRequested' = FALSE
    /\ UNCHANGED <<isListening, silenceTimer, restartTimers, batches, finalized>>

StopListening ==
    /\ shouldBeListening' = FALSE
    /\ silenceTimer' = NoTimer
    /\ RecognitionStop
    /\ stopRequested' = TRUE
    /\ UNCHANGED <<isListening, error, processedIndex, restartTimers,
                   results, batches, finalized, skipped, delivered>>

OnStart ==
    /\ recState = "starting"
    /\ recState' = "running"
    /\ isListening' = TRUE
    /\ error' = "null"
    /\ UNCHANGED <<shouldBeListening, transcript, processedIndex, silenceTimer,
                   restartTimers, results, batches, finalized, stopRequested, skipped,
                   delivered>>
    /\ UNCHANGED appVars

\* onresult, the gated branch: the batch is discarded
GatedResult(res) ==
    /\ processedIndex' = Len(res)
    /\ transcript' = <<>>
    /\ silenceTimer' = NoTimer
    /\ skipped' = skipped \cup {Len(res)}
    /\ UNCHANGED delivered

\* faulty variant: a timer that is already armed is left as it is
BufferedResultNoReset(res) ==
    /\ transcript' = CurrentSegment(res, processedIndex)
    /\ silenceTimer' = IF silenceTimer.armed THEN silenceTimer
                       ELSE [armed |-> TRUE,
                             segment |-> CurrentSegment(res, processedIndex),
                             len |-> Len(res),
                             from |-> processedIndex]
    /\ UNCHANGED <<processedIndex, skipped, delivered>>

\* onresult, the normal branch: rebuild the segment and re-arm the timer
BufferedResult(res) ==
    /\ transcript' = CurrentSegment(res, processedIndex)
    /\ silenceTimer' = [armed |-> TRUE,
                        segment |-> CurrentSegment(res, processedIndex),
                        len |-> Len(res),
                        from |-> processedIndex]
    /\ UNCHANGED <<processedIndex, skipped, delivered>>

OnResult(frag) ==
    /\ recState \in {"running", "stopping"}
    /\ batches < MaxBatches
    /\ batches' = batches + 1
    /\ results' = Append(results, frag)
    /\ recState' = IF recState = "stopping" THEN "ending" ELSE recState
    /\ IF shouldIgnoreInputRef
       THEN GatedResult(results')
       ELSE BufferedResult(results')
    /\ UNCHANGED <<shouldBeListening, isListening, error, restartTimers,
                   finalized, stopRequested>>
    /\ UNCHANGED appVars

\* faulty variant: the callback without its second look at the flag
SilenceElapsedUngated ==
    IF Trim(silenceTimer.segment) # <<>>
    THEN /\ finalized' = Append(finalized, silenceTimer.segment)
         /\ delivered' = delivered \cup ((silenceTimer.from + 1) .. silenceTimer.len)
         /\ processedIndex' = silenceTimer.len
         /\ transcript' = <<>>
    ELSE UNCHANGED <<transcript, processedIndex, finalized, delivered>>

\* the silence timeout's callback
SilenceElapsed ==
    IF Trim(silenceTimer.segment) # <<>>
    THEN IF shouldIgnoreInputRef
         THEN /\ transcript' = <<>>
              /\ processedIndex' = silenceTimer.len
              /\ UNCHANGED <<finalized, delivered>>
         ELSE /\ finalized' = Append(finalized, silenceTimer.segment)
              /\ delivered' = delivered \cup ((silenceTimer.from + 1) .. silenceTimer.len)
              /\ processedIndex' = silenceTimer.len
              /\ transcript' = <<>>
    ELSE UNCHANGED <<transcript, processedIndex, finalized, delivered>>

OnSilenceTimer ==
    /\ silenceTimer.armed
    /\ silenceTimer' = NoTimer
    /\ SilenceElapsed
    /\ UNCHANGED <<shouldBeListening, isListening, error, restartTimers, recState,
                   results, batches, stopRequested, skipped>>
    /\ UNCHANGED appVars

ErrorCodes == {"not-allowed", "no-speech", "aborted", "network"}

\* faulty variant: every error code treated as fatal
ErrorClassAllFatal(code) ==
    IF code \in {"no-speech", "aborted"}
    THEN /\ shouldBeListening' = FALSE
         /\ UNCHANGED <<error, isListening>>
    ELSE /\ error' = IF code = "not-allowed" THEN "Microphone access denied." ELSE code
         /\ isListening' = FALSE
         /\ shouldBeListening' = FALSE

\* what onerror does for one error code
ErrorClass(code) ==
    IF code = "not-allowed"
    THEN /\ error' = "Microphone access denied."
         /\ isListening' = FALSE
         /\ shouldBeListening' = FALSE
    ELSE IF code \in {"no-speech", "aborted"}
    THEN UNCHANGED <<error, isListening, shouldBeListening>>
    ELSE /\ error' = code
         /\ isListening' = FALSE
         /\ UNCHANGED shouldBeListening

\* App's effect on speechError: a surfaced error ends the active session
SpeechErrorEffect ==
    isActiveSession' =
        IF error' # error /\ error' # "null" /\ error' \notin {"no-speech", "aborted"}
        THEN FALSE ELSE isActiveSession

OnError(code) ==
    /\ recState \in {"starting", "running"}
    /\ recState' = "ending"
    /\ silenceTimer' = NoTimer
    /\ ErrorClass(code)
    /\ SpeechErrorEffect
    /\ UNCHANGED <<transcript, processedIndex, restartTimers, results, batches,
                   finalized, stopRequested, skipped, delivered>>
    /\ UNCHANGED <<ttsVars, ctlVars>>

\* faulty variant: onend without the auto-restart
ScheduleRestartNever == UNCHANGED restartTimers

\* onend's auto-restart: setTimeout(() => recognition.start(), 100)
ScheduleRestart ==
    restartTimers' = IF shouldBeListening THEN restartTimers + 1 ELSE restartTimers

OnEnd ==
    /\ recState \in {"running", "stopping", "ending"}
    /\ shouldBeListening => restartTimers < MaxRestartTimers
    /\ recState' = "idle"
    /\ silenceTimer' = NoTimer
    /\ isListening' = FALSE
    /\ ScheduleRestart
    /\ UNCHANGED <<shouldBeListening, error, transcript, processedIndex, results,
                   batches, finalized, stopRequested, skipped, delivered>>
    /\ UNCHANGED appVars

\* the 100 ms timeout's callback
OnRestartTimer ==
    /\ restartTimers > 0
    /\ restartTimers' = restartTimers - 1
    /\ RecognitionStart
    /\ UNCHANGED <<shouldBeListening, isListening, error, transcript, processedIndex,
                   silenceTimer, batches, finalized, stopRequested>>
    /\ UNCHANGED appVars

\* the caller re-renders with a new shouldIgnoreInput (App passes isSpeaking)
SetShouldIgnoreInput(b) ==
    /\ isSpeaking # b
    /\ isSpeaking' = b
    /\ UNCHANGED recVars
    /\ UNCHANGED <<isActiveSession, isTtsEnabled, synth, cancelled, settleTimers,
                   ctlVars>>

\* ------------------------------------------------------ App: speech output
\* an utterance at the synthesizer; handlers: it carries speak()'s onend/onerror
Utterance(text) == [text |-> text, handlers |-> TRUE]
SilentUtterance == [text |-> <<>>, handlers |-> FALSE]

NumHandled(queue) == Cardinality({i \in 1..Len(queue) : queue[i].handlers})

\* window.speechSynthesis.cancel(): the queue empties; the platform still owes
\* each removed utterance its end or error event
SynthCancel ==
    /\ synth' = <<>>
    /\ cancelled' = cancelled + NumHandled(synth)

\* speak(text) of the render whose isTtsEnabled was tts
Speak(tts, text) ==
    IF ~tts
    THEN UNCHANGED <<isSpeaking, synth, cancelled>>
    ELSE /\ isSpeaking' = TRUE
         /\ synth' = <<Utterance(text)>>
         /\ cancelled' = cancelled + NumHandled(synth)

\* the utterance at the head of the queue completes
SynthEnd ==
    /\ synth # <<>>
    /\ synth' = Tail(synth)
    /\ settleTimers' = IF Head(synth).handlers THEN settleTimers + 1 ELSE settleTimers
    /\ UNCHANGED <<isTtsEnabled, isSpeaking, cancelled>>
    /\ UNCHANGED <<recVars, isActiveSession, ctlVars>>

\* the utterance at the head of the queue fails
SynthError ==
    /\ synth # <<>>
    /\ synth' = Tail(synth)
    /\ isSpeaking' = IF Head(synth).handlers THEN FALSE ELSE isSpeaking
    /\ UNCHANGED <<isTtsEnabled, cancelled, settleTimers>>
    /\ UNCHANGED <<recVars, isActiveSession, ctlVars>>

\* the event the platform owes a cancelled utterance: "end" or "error"
CancelledEvent(kind) ==
    /\ cancelled > 0
    /\ cancelled' = cancelled - 1
    /\ IF kind = "end"
       THEN settleTimers' = settleTimers + 1 /\ UNCHANGED isSpeaking
       ELSE isSpeaking' = FALSE /\ UNCHANGED settleTimers
    /\ UNCHANGED <<isTtsEnabled, synth>>
    /\ UNCHANGED <<recVars, isActiveSession, ctlVars>>

\* setTimeout(() => setIsSpeaking(false), 500)
OnSettleTimer ==
    /\ settleTimers > 0
    /\ settleTimers' = settleTimers - 1
    /\ isSpeaking' = FALSE
    /\ UNCHANGED <<isTtsEnabled, synth, cancelled>>
    /\ UNCHANGED <<recVars, isActiveSession, ctlVars>>

\* the TTS button, and the effect on isTtsEnabled
ToggleTts ==
    /\ isTtsEnabled' = ~isTtsEnabled
    /\ IF isTtsEnabled
       THEN SynthCancel /\ isSpeaking' = FALSE
       ELSE UNCHANGED <<synth, cancelled, isSpeaking>>
    /\ UNCHANGED settleTimers
    /\ UNCHANGED <<recVars, isActiveSession, ctlVars>>

\* ------------------------------------------------------ App: the session
\* faulty variant: a chat is created without looking for the key
InitializeGeminiAlways == chatSession' = Some(0)

\* initializeGemini(): a fresh chat when there is a key
InitializeGemini == chatSession' = IF apiKey THEN Some(0) ELSE chatSession

\* faulty variant: resetData without setPendingCommands(null)
ResetDataKeepsProposal ==
    /\ messages' = <<>>
    /\ InitializeGemini
    /\ transcript' = <<>>
    /\ UNCHANGED pendingCommands
    /\ SynthCancel
    /\ isSpeaking' = FALSE

ResetData ==
    /\ messages' = <<>>
    /\ InitializeGemini
    /\ transcript' = <<>>
    /\ pendingCommands' = Null
    /\ SynthCancel
    /\ isSpeaking' = FALSE

HandleManualReset ==
    /\ ResetData
    /\ isActiveSession' = FALSE
    /\ StopListening
    /\ UNCHANGED <<isTtsEnabled, settleTimers>>
    /\ UNCHANGED <<isProcessing, smartHomeState, turns, apiKey, inflight>>

ToggleSession ==
    /\ IF isActiveSession
       THEN /\ isActiveSession' = FALSE
            /\ StopListening
            /\ UNCHANGED <<transcript, synth>>
       ELSE /\ Len(synth) < MaxSynthQueue
            /\ synth' = IF isTtsEnabled THEN Append(synth, SilentUtterance) ELSE synth
            /\ isActiveSession' = TRUE
            /\ StartListening
            /\ transcript' = <<>>
    /\ UNCHANGED <<isTtsEnabled, isSpeaking, cancelled, settleTimers>>
    /\ UNCHANGED ctlVars

\* ------------------------------------------------- App: handleUserMessage
UserMsg(text) ==
    [role |-> "user", type |-> "USER_TEXT", text |-> text, commandData |-> Null]
AiText(text) ==
    [role |-> "ai", type |-> "AI_TEXT", text |-> text, commandData |-> Null]
AiProposal(commands) ==
    [role |-> "ai", type |-> "AI_PROPOSAL", text |-> <<>>, commandData |-> Some(commands)]
AiNoCommands ==
    [role |-> "ai", type |-> "AI_PROPOSAL", text |-> <<>>, commandData |-> Null]
SystemInfo(text) ==
    [role |-> "system", type |-> "SYSTEM_INFO", text |-> text, commandData |-> Null]
ExecutionSuccess(commands) ==
    [role |-> "system", type |-> "EXECUTION_SUCCESS", text |-> SuccessText(commands),
     commandData |-> Null]

\* a fixed text is the one-piece sequence of it
RepromptText == <<"Ok, please tell me some instructions you want me to perform.">>
GreetingText == <<"Hello! Please give me some instructions you want me to perform.">>
NotUnderstoodText ==
    <<"I couldn't understand that command. Could you try phrasing it differently?">>
ConnectFailText == <<"Sorry, I had trouble connecting. Please try again.">>
ExecutedText == <<"Executed.">>

\* newCommands.map((cmd, i) => `${i + 1}... ${cmd.summary}`).join('. ')
RECURSIVE SpeechParts(_, _)
SpeechParts(commands, i) ==
    IF i > Len(commands) THEN <<>>
    ELSE (IF i > 1 THEN <<". ">> ELSE <<>>)
         \o NatToText(i) \o <<"... ", commands[i].summary>>
         \o SpeechParts(commands, i + 1)

\* `I heard: ${speechParts.join('. ')}. Should I execute?`
ProposalSpeech(commands) ==
    <<"I heard: ">> \o SpeechParts(commands, 1) \o <<". Should I execute?">>

greetings ==
    { <<"h","e","l","l","o">>, <<"h","i">>, <<"h","e","y">>,
      <<"g","r","e","e","t","i","n","g","s">>,
      <<"g","o","o","d"," ","m","o","r","n","i","n","g">>,
      <<"g","o","o","d"," ","a","f","t","e","r","n","o","o","n">>,
      <<"g","o","o","d"," ","e","v","e","n","i","n","g">>,
      <<"h","i"," ","t","h","e","r","e">> }

\* faulty variant: any text that begins with the letters of a greeting
IsGreetingAnyPrefix(cleaned) ==
    \E g \in greetings : cleaned = g \/ StartsWith(cleaned, g)

IsGreeting(cleaned) ==
    \E g \in greetings : cleaned = g \/ StartsWith(cleaned, g \o <<" ">>)

\* faulty variant: the success message only when a device changed
ExecuteCommandsOnChange(commands, log, tts) ==
    /\ smartHomeState' = ApplyCommands(smartHomeState, commands)
    /\ messages' = IF smartHomeState' = smartHomeState THEN log
                   ELSE Append(log, ExecutionSuccess(commands))
    /\ Speak(tts, ExecutedText)

\* executeCommands(commands), called with `log` as the message list so far
\* and speak() of the render whose isTtsEnabled was tts
ExecuteCommands(commands, log, tts) ==
    /\ smartHomeState' = ApplyCommands(smartHomeState, commands)
    /\ messages' = Append(log, ExecutionSuccess(commands))
    /\ Speak(tts, ExecutedText)

\* step 1: the restart keyword
RestartTurn ==
    /\ ResetData
    /\ UNCHANGED <<isProcessing, smartHomeState, inflight>>

\* faulty variant: the rejection answered but the proposal kept
RejectionTurnKeepsProposal(text) ==
    /\ UNCHANGED pendingCommands
    /\ messages' = Append(Append(messages, UserMsg(text)), AiText(RepromptText))
    /\ Speak(isTtsEnabled, RepromptText)
    /\ UNCHANGED <<isProcessing, smartHomeState, chatSession, inflight, transcript>>

\* step 2: a rejection keyword while a proposal is pending
RejectionTurn(text) ==
    /\ pendingCommands' = Null
    /\ messages' = Append(Append(messages, UserMsg(text)), AiText(RepromptText))
    /\ Speak(isTtsEnabled, RepromptText)
    /\ UNCHANGED <<isProcessing, smartHomeState, chatSession, inflight, transcript>>

\* step 3: a short affirmative while a proposal is pending
IsSimpleConfirmation(cleaned) ==
    pendingCommands # Null /\ IsAffirmative(cleaned) /\ WordCount(cleaned) <= 4

\* faulty variant: the confirmation executes and keeps the proposal
SimpleConfirmationTurnKeeps(text) ==
    /\ ExecuteCommands(pendingCommands[1], Append(messages, UserMsg(text)), isTtsEnabled)
    /\ UNCHANGED <<pendingCommands, isProcessing, chatSession, inflight, transcript>>

SimpleConfirmationTurn(text) ==
    /\ ExecuteCommands(pendingCommands[1], Append(messages, UserMsg(text)), isTtsEnabled)
    /\ pendingCommands' = Null
    /\ UNCHANGED <<isProcessing, chatSession, inflight, transcript>>

\* faulty variant: the catch block without the finally block
CatchBlockNoFinally(log, tts) ==
    /\ messages' = Append(log, SystemInfo(ConnectFailText))
    /\ Speak(tts, ConnectFailText)
    /\ UNCHANGED isProcessing

\* the catch and finally blocks, with speak() of the turn's render
CatchBlock(log, tts) ==
    /\ messages' = Append(log, SystemInfo(ConnectFailText))
    /\ Speak(tts, ConnectFailText)
    /\ isProcessing' = FALSE

\* step 4 up to the await: analyzeCommand(text) sends the text, or throws at
\* once when there is no session
AnalyzeTurn(text) ==
    IF chatSession = Null /\ ~apiKey
    THEN /\ CatchBlock(Append(messages, UserMsg(text)), isTtsEnabled)
         /\ UNCHANGED <<pendingCommands, smartHomeState, chatSession, inflight, transcript>>
    ELSE /\ messages' = Append(messages, UserMsg(text))
         /\ isProcessing' = TRUE
         /\ chatSession' = Some((IF chatSession = Null THEN 0 ELSE chatSession[1]) + 1)
         /\ inflight' = Append(inflight,
                [text |-> text,
                 pendingCommands |-> pendingCommands,
                 isAffirmative |-> IsAffirmative(CleanedText(text)),
                 isTtsEnabled |-> isTtsEnabled])
         /\ UNCHANGED <<pendingCommands, smartHomeState, transcript>>
         /\ UNCHANGED <<isSpeaking, synth, cancelled>>

Unchanged_Turn ==
    UNCHANGED <<messages, isProcessing, pendingCommands, smartHomeState, chatSession,
                   inflight, transcript, isSpeaking, synth, cancelled>>

\* faulty variant: handleUserMessage without the speaking gate
HandleUserMessageUngated(text) ==
    /\ turns < MaxTurns
    /\ turns' = turns + 1
    /\ IF Trim(text) = <<>> THEN Unchanged_Turn
       ELSE IF CleanedText(text) = RestartWord THEN RestartTurn
       ELSE IF pendingCommands # Null /\ CleanedText(text) \in rejectionKeywords
            THEN RejectionTurn(text)
       ELSE IF IsSimpleConfirmation(CleanedText(text)) THEN SimpleConfirmationTurn(text)
       ELSE AnalyzeTurn(text)
    /\ UNCHANGED <<isTtsEnabled, settleTimers, apiKey, isActiveSession>>
    /\ UNCHANGED <<shouldBeListening, isListening, error, processedIndex, silenceTimer,
                   restartTimers, recState, results, batches, finalized, stopRequested,
                   skipped, delivered>>

HandleUserMessage(text) ==
    /\ turns < MaxTurns
    /\ turns' = turns + 1
    /\ IF Trim(text) = <<>> THEN Unchanged_Turn
       ELSE IF isSpeaking THEN Unchanged_Turn
       ELSE IF CleanedText(text) = RestartWord THEN RestartTurn
       ELSE IF pendingCommands # Null /\ CleanedText(text) \in rejectionKeywords
            THEN RejectionTurn(text)
       ELSE IF IsSimpleConfirmation(CleanedText(text)) THEN SimpleConfirmationTurn(text)
       ELSE AnalyzeTurn(text)
    /\ UNCHANGED <<isTtsEnabled, settleTimers, apiKey, isActiveSession>>
    /\ UNCHANGED <<shouldBeListening, isListening, error, processedIndex, silenceTimer,
                   restartTimers, recState, results, batches, finalized, stopRequested,
                   skipped, delivered>>

\* the replies the extraction service may give: the JSON's commands array
RawLight ==
    [summary |-> "Turn on the living room light", action |-> A_TURN_ON,
     parameters |-> <<[key |-> "device", value |-> T_living_room_light]>>]
RawTemp ==
    [summary |-> "Set the thermostat to 75", action |-> A_SET_TEMPERATURE,
     parameters |-> <<[key |-> "device", value |-> T_thermostat],
                      [key |-> "temperature", value |-> <<"7","5">>]>>]
RawTempSwapped ==
    [summary |-> "Thermostat to 75 degrees", action |-> A_SET_TEMPERATURE,
     parameters |-> <<[key |-> "temperature", value |-> <<"7","5">>],
                      [key |-> "device", value |-> T_thermostat]>>]
RawReplies == { <<>>, <<RawLight>>, <<RawTemp>>, <<RawTempSwapped>> }

\* how one sendMessage ends: it throws (network, JSON.parse), it carries no
\* text, or it carries JSON
Outcomes ==
    { [kind |-> "throw", raw |-> <<>>], [kind |-> "noText", raw |-> <<>>] }
    \cup { [kind |-> "json", raw |-> r] : r \in RawReplies }

\* analyzeCommand's return value for an outcome that does not throw
AnalyzeResult(outcome) ==
    IF outcome.kind = "noText" THEN Null ELSE Some(ExtractCommands(outcome.raw))

RemoveAt(seq, i) == SubSeq(seq, 1, i - 1) \o SubSeq(seq, i + 1, Len(seq))

\* faulty variant: the strict match without the affirmative test
IsStrictMatchAnyText(turn, newCommands) ==
    /\ turn.pendingCommands # Null
    /\ areCommandsEqual(turn.pendingCommands[1], newCommands)

\* const isStrictMatch = pendingCommands && areCommandsEqual(...) && isAffirmative
IsStrictMatch(turn, newCommands) ==
    /\ turn.pendingCommands # Null
    /\ areCommandsEqual(turn.pendingCommands[1], newCommands)
    /\ turn.isAffirmative

\* faulty variant: the extracted commands are executed as they arrive
CommandsBranchEager(turn, newCommands) ==
    /\ ExecuteCommands(newCommands, messages, turn.isTtsEnabled)
    /\ pendingCommands' = Null

\* newCommands is non-empty
CommandsBranch(turn, newCommands) ==
    IF IsStrictMatch(turn, newCommands)
    THEN /\ ExecuteCommands(turn.pendingCommands[1], messages, turn.isTtsEnabled)
         /\ pendingCommands' = Null
    ELSE /\ pendingCommands' = Some(newCommands)
         /\ messages' = Append(messages, AiProposal(newCommands))
         /\ Speak(turn.isTtsEnabled, ProposalSpeech(newCommands))
         /\ UNCHANGED smartHomeState

\* newCommands is null or empty
NoCommandsBranch(turn) ==
    /\ IF IsGreeting(CleanedText(turn.text))
       THEN /\ messages' = Append(messages, AiText(GreetingText))
            /\ Speak(turn.isTtsEnabled, GreetingText)
       ELSE /\ messages' = Append(messages, AiNoCommands)
            /\ Speak(turn.isTtsEnabled, NotUnderstoodText)
    /\ UNCHANGED <<pendingCommands, smartHomeState>>

\* step 4 after the await, for the i-th outstanding call
AnalyzeSettles(i, outcome) ==
    /\ i \in 1..Len(inflight)
    /\ inflight' = RemoveAt(inflight, i)
    /\ IF outcome.kind = "throw"
       THEN /\ CatchBlock(messages, inflight[i].isTtsEnabled)
            /\ UNCHANGED <<pendingCommands, smartHomeState>>
       ELSE /\ IF AnalyzeResult(outcome) # Null /\ Len(AnalyzeResult(outcome)[1]) > 0
               THEN CommandsBranch(inflight[i], AnalyzeResult(outcome)[1])
               ELSE NoCommandsBranch(inflight[i])
            /\ isProcessing' = FALSE
    /\ UNCHANGED <<turns, apiKey, chatSession, isTtsEnabled, settleTimers,
                   isActiveSession>>
    /\ UNCHANGED recVars

\* what the user says or types
Utterances ==
    { <<"R","e","s","t","a","r","t",".">>,
      <<"N","o","!">>,
      <<"Y","e","s"," ","p","l","e","a","s","e">>,
      <<"o","k"," ","g","o"," ","d","o"," ","i","t"," ","!">>,
      <<"y","e","s"," ","s","e","t"," ","i","t"," ","t","o"," ","7","5">>,
      <<"l","a","m","p"," ","o","n">> }

\* ---------------------------------------------------------- specifications
Init ==
    /\ shouldBeListening = FALSE
    /\ isListening = FALSE
    /\ error = "null"
    /\ transcript = <<>>
    /\ processedIndex = 0
    /\ silenceTimer = NoTimer
    /\ restartTimers = 0
    /\ recState = "idle"
    /\ results = <<>>
    /\ batches = 0
    /\ finalized = <<>>
    /\ stopRequested = FALSE
    /\ skipped = {}
    /\ delivered = {}
    /\ isActiveSession = FALSE
    /\ messages = <<>>
    /\ isProcessing = FALSE
    /\ pendingCommands = Null
    /\ smartHomeState = [livingRoomLight |-> FALSE, frontDoorLocked |-> TRUE,
                         thermostatTemp |-> 72]
    /\ turns = 0
    /\ isTtsEnabled = TRUE
    /\ isSpeaking = FALSE
    /\ synth = <<>>
    /\ cancelled = 0
    /\ settleTimers = 0
    /\ apiKey \in BOOLEAN
    /\ chatSession = IF apiKey THEN Some(0) ELSE Null
    /\ inflight = <<>>

RecNext ==
    \/ ToggleSession
    \/ HandleManualReset
    \/ SynthEnd
    \/ OnStart
    \/ \E frag \in Fragments : OnResult(frag)
    \/ OnSilenceTimer
    \/ \E code \in ErrorCodes : OnError(code)
    \/ OnEnd
    \/ OnRestartTimer
    \/ \E b \in BOOLEAN : SetShouldIgnoreInput(b)

RecSpec == Init /\ [][RecNext]_vars

AppNext ==
    \/ \E text \in Utterances : HandleUserMessage(text)
    \/ \E i \in 1..MaxTurns, outcome \in Outcomes : AnalyzeSettles(i, outcome)
    \/ SynthEnd
    \/ SynthError
    \/ \E kind \in {"end", "error"} : CancelledEvent(kind)
    \/ OnSettleTimer

AppSpec == Init /\ [][AppNext]_vars

\* the 100 ms restart timeout, once set, fires
RecLiveSpec == RecSpec /\ WF_vars(OnRestartTimer)

\* ---- the executor on proposals of every shape (ExecSpec) ----
\* device, action and value texts the extraction service may return
D_living_room_lamp == <<"L","i","v","i","n","g"," ","R","o","o","m"," ","L","a","m","p">>
D_living_room == <<"l","i","v","i","n","g"," ","r","o","o","m">>
D_front_door == <<"F","r","o","n","t"," ","d","o","o","r">>
D_garage == <<"g","a","r","a","g","e">>
A_turn_off == <<"t","u","r","n","_","o","f","f">>
A_OPEN == <<"O","P","E","N">>
V_75 == <<"7","5">>
V_0 == <<"0">>
V_warm == <<"w","a","r","m">>
V_68 == <<"6","8">>

ExecDevices ==
    { Null, Some(T_living_room_light), Some(D_living_room_lamp), Some(D_living_room),
      Some(D_front_door), Some(T_thermostat), Some(D_garage) }
ExecActions ==
    { A_TURN_ON, A_turn_off, A_TURN_ON \o A_DEVICE, A_UNLOCK, A_SET_TEMPERATURE, A_OPEN }
ExecTemperatures == { Null, Some(V_75), Some(V_0), Some(V_warm) }
ExecValues == { Null, Some(V_68) }

\* one element of rawData.commands: the parameters the reply carries, in order
RawCommand(action, device, temperature, value) ==
    [summary |-> "Do it", action |-> action,
     parameters |->
        (IF device = Null THEN <<>> ELSE <<[key |-> "device", value |-> device[1]]>>)
        \o (IF temperature = Null THEN <<>>
            ELSE <<[key |-> "temperature", value |-> temperature[1]]>>)
        \o (IF value = Null THEN <<>> ELSE <<[key |-> "value", value |-> value[1]]>>)]

ExecRawCommands ==
    { RawCommand(a, d, Null, Null) : a \in ExecActions, d \in ExecDevices }
    \cup { RawCommand(a, d, t, v) :
              a \in {A_SET_TEMPERATURE, A_TURN_ON},
              d \in {Null, Some(T_thermostat), Some(D_living_room_lamp)},
              t \in ExecTemperatures, v \in ExecValues }

\* the replies: every single command, and lists of two and three commands
ExecReplies ==
    { <<c>> : c \in ExecRawCommands }
    \cup { <<RawLight, c>> : c \in { RawTemp, RawCommand(A_OPEN, Some(D_garage), Null, Null),
                                    RawCommand(A_turn_off, Some(D_living_room_lamp), Null, Null) } }
    \cup { <<RawCommand(A_OPEN, Some(D_garage), Null, Null),
             RawCommand(A_OPEN, Null, Null, Null)>>,
           <<RawTemp, RawCommand(A_UNLOCK, Some(D_front_door), Null, Null), RawLight>> }

\* device states earlier executions leave behind
ExecStates ==
    { [livingRoomLight |-> FALSE, frontDoorLocked |-> TRUE, thermostatTemp |-> 72],
      [livingRoomLight |-> TRUE, frontDoorLocked |-> FALSE, thermostatTemp |-> 68] }

\* the state after one turn was answered with a proposal, one of `replies`,
\* and its speech ended
ProposedInit(replies) ==
    /\ shouldBeListening = FALSE
    /\ isListening = FALSE
    /\ error = "null"
    /\ transcript = <<>>
    /\ processedIndex = 0
    /\ silenceTimer = NoTimer
    /\ restartTimers = 0
    /\ recState = "idle"
    /\ results = <<>>
    /\ batches = 0
    /\ finalized = <<>>
    /\ stopRequested = FALSE
    /\ skipped = {}
    /\ delivered = {}
    /\ isActiveSession = FALSE
    /\ \E raw \in replies :
          /\ pendingCommands = Some(ExtractCommands(raw))
          /\ messages = <<UserMsg(<<"l","a","m","p"," ","o","n">>),
                          AiProposal(ExtractCommands(raw))>>
    /\ isProcessing = FALSE
    /\ smartHomeState \in ExecStates
    /\ turns = 0
    /\ isTtsEnabled = TRUE
    /\ isSpeaking = FALSE
    /\ synth = <<>>
    /\ cancelled = 0
    /\ settleTimers = 0
    /\ apiKey = TRUE
    /\ chatSession = Some(1)
    /\ inflight = <<>>

ExecInit == ProposedInit(ExecReplies)

ExecNext ==
    \/ \E text \in Utterances : HandleUserMessage(text)
    \/ SynthEnd
    \/ OnSettleTimer

ExecSpec == ExecInit /\ [][ExecNext]_vars

\* ---- the comparison of a reply with the pending proposal (EqSpec) ----
\* replies that differ in key order, summary, value, action, order and length
EqReplies ==
    { <<RawLight>>, <<RawTemp>>, <<RawTempSwapped>>,
      <<RawCommand(A_TURN_ON, Some(T_living_room_light), Null, Null)>>,
      <<RawCommand(A_turn_off, Some(T_living_room_light), Null, Null)>>,
      <<RawCommand(A_SET_TEMPERATURE, Some(T_thermostat), Some(V_68), Null)>>,
      <<RawCommand(A_SET_TEMPERATURE, Some(T_thermostat), Null, Some(V_75))>>,
      <<RawLight, RawTemp>>, <<RawTemp, RawLight>>, <<RawLight, RawTempSwapped>> }

EqInit == ProposedInit(EqReplies)

\* texts that reach the extraction call: affirmative and long, not affirmative
EqUtterances ==
    { <<"y","e","s"," ","s","e","t"," ","i","t"," ","t","o"," ","7","5">>,
      <<"l","a","m","p"," ","o","n">> }

EqNext ==
    \/ \E text \in EqUtterances : HandleUserMessage(text)
    \/ \E i \in 1..MaxTurns, raw \in EqReplies :
          AnalyzeSettles(i, [kind |-> "json", raw |-> raw])

EqSpec == EqInit /\ [][EqNext]_vars

\* ---- turns the extraction service answers with nothing (GreetSpec) ----
\* greetings alone and followed by words, a text that only begins with the
\* letters of one, and a request
GreetUtterances ==
    { <<"H","e","l","l","o","!">>,
      <<"H","e","y"," ","l","a","m","p">>,
      <<"h","i","n","t">>,
      <<"l","a","m","p"," ","o","n">> }

GreetOutcomes ==
    { [kind |-> "noText", raw |-> <<>>], [kind |-> "json", raw |-> <<>>],
      [kind |-> "json", raw |-> <<RawLight>>] }

GreetNext ==
    \/ \E text \in GreetUtterances : HandleUserMessage(text)
    \/ \E i \in 1..MaxTurns, outcome \in GreetOutcomes : AnalyzeSettles(i, outcome)
    \/ SynthEnd
    \/ OnSettleTimer

GreetSpec == Init /\ [][GreetNext]_vars

\* ChatMessage: the text a message's bubble shows
RenderedText(m) ==
    IF m.type = "AI_PROPOSAL"
    THEN IF m.commandData # Null /\ Len(m.commandData[1]) > 0
         THEN <<"I heard:">> \o [i \in 1..Len(m.commandData[1]) |->
                                    m.commandData[1][i].summary]
         ELSE NotUnderstoodText
    ELSE m.text

\* ---- speech output switched on and off (TtsSpec) ----
\* a request and a short confirmation; a call that throws and one that proposes
TtsUtterances ==
    { <<"l","a","m","p"," ","o","n">>,
      <<"Y","e","s"," ","p","l","e","a","s","e">> }

TtsOutcomes ==
    { [kind |-> "throw", raw |-> <<>>], [kind |-> "json", raw |-> <<RawLight>>] }

TtsNext ==
    \/ \E text \in TtsUtterances : HandleUserMessage(text)
    \/ \E i \in 1..MaxTurns, outcome \in TtsOutcomes : AnalyzeSettles(i, outcome)
    \/ ToggleTts
    \/ ToggleSession
    \/ SynthEnd
    \/ SynthError
    \/ \E kind \in {"end", "error"} : CancelledEvent(kind)
    \/ OnSettleTimer

TtsSpec == Init /\ [][TtsNext]_vars

\* ------------------------------------------------------------------ claims

SessionStarts == recState = "idle" /\ recState' = "starting"

\* C1: after stopListening(), no recognizer session is started until
\* startListening() is called, in every interleaving.
C1_StopIsTerminal ==
    [][(stopRequested /\ stopRequested') => ~SessionStarts]_vars

\* the positions of event.results that the pending timeout would deliver
TimerPositions == (silenceTimer.from + 1) .. silenceTimer.len

\* C2: a result batch that arrives while input is ignored invokes no
\* onSpeechEnd, leaves no silence timer armed, moves the cursor to the end of
\* the batch, and its content is in no later finalized utterance.
C2_EchoSuppression ==
    [][ /\ \A frag \in Fragments :
             (OnResult(frag) /\ shouldIgnoreInputRef) =>
                 /\ finalized' = finalized
                 /\ ~silenceTimer'.armed
                 /\ processedIndex' = Len(results')
        /\ (finalized' # finalized) => (TimerPositions \cap skipped = {}) ]_vars

\* C2, the batch's own step only
C2_GatedBatch ==
    [][ \A frag \in Fragments :
          (OnResult(frag) /\ shouldIgnoreInputRef) =>
              /\ finalized' = finalized
              /\ ~silenceTimer'.armed
              /\ processedIndex' = Len(results') ]_vars

\* C3: the silence timer's callback. Unignored and non-blank: onSpeechEnd gets
\* the accumulated text once, the cursor moves to the end of the batch that
\* armed the timer, the transcript clears. Ignored: no callback, the cursor
\* still moves, the transcript clears. Blank text: nothing changes.
C3_SilenceTimerFires ==
    [][ OnSilenceTimer =>
          /\ ~silenceTimer'.armed
          /\ IF Trim(silenceTimer.segment) = <<>>
             THEN UNCHANGED <<finalized, processedIndex, transcript>>
             ELSE /\ processedIndex' = Len(results)
                  /\ transcript' = <<>>
                  /\ finalized' = IF shouldIgnoreInputRef
                                  THEN finalized
                                  ELSE Append(finalized, silenceTimer.segment) ]_vars

C3_Witness ==
    /\ Len(finalized) > 0
    /\ processedIndex = Len(results)
    /\ processedIndex > 0
    /\ transcript = <<>>

\* C4: a session that ended while listening was intended is followed by a new
\* session; a session end without that intent schedules no restart.
C4_AlwaysOn ==
    /\ (recState = "idle" /\ shouldBeListening) ~> (recState # "idle")
    /\ [][(OnEnd /\ ~shouldBeListening) => restartTimers' = restartTimers]_vars

C4_Witness == recState = "idle" /\ shouldBeListening /\ restartTimers > 0

\* C5: onerror by code. not-allowed: a visible error and intent cleared;
\* no-speech, aborted: no visible error, intent kept; any other code: the code
\* is the visible error, intent kept. Every error clears the silence timer.
C5_ErrorClassification ==
    [][ \A code \in ErrorCodes :
          OnError(code) =>
              /\ ~silenceTimer'.armed
              /\ code = "not-allowed" =>
                     /\ error' = "Microphone access denied."
                     /\ ~shouldBeListening'
              /\ code \in {"no-speech", "aborted"} =>
                     /\ error' = error
                     /\ shouldBeListening' = shouldBeListening
              /\ code \notin {"not-allowed", "no-speech", "aborted"} =>
                     /\ error' = code
                     /\ shouldBeListening' = shouldBeListening ]_vars

C5_Witness ==
    /\ recState = "ending"
    /\ error = "network"
    /\ shouldBeListening

\* ---- the conversation controller (AppSpec) ----

\* a turn that passes the blank-text return and the speaking gate
TurnRuns(text) == HandleUserMessage(text) /\ Trim(text) # <<>> /\ ~isSpeaking

\* speak(text) reached the synthesizer: the one utterance in flight is text
Spoken(text) == synth' = <<Utterance(text)>> /\ isSpeaking'

NoRemoteCall == inflight' = inflight /\ chatSession' = chatSession

\* C6: a turn whose cleaned text is exactly "restart" empties the log, clears
\* the pending proposal, re-creates the remote session, and does nothing
\* else: no user message, no remote call, device state unchanged.
C6_RestartKeyword ==
    [][ \A text \in Utterances :
          (TurnRuns(text) /\ CleanedText(text) = RestartWord) =>
              /\ messages' = <<>>
              /\ pendingCommands' = Null
              /\ chatSession' = IF apiKey THEN Some(0) ELSE Null
              /\ inflight' = inflight
              /\ smartHomeState' = smartHomeState
              /\ isProcessing' = isProcessing ]_vars

C6_Witness ==
    /\ turns = 2
    /\ messages = <<>>
    /\ pendingCommands = Null
    /\ chatSession = Some(0)
    /\ Len(inflight) = 1

\* C7: with a proposal pending, a turn whose cleaned text is a rejection
\* keyword clears the proposal, appends the fixed re-prompt as an AI_TEXT
\* message and speaks it, makes no remote call, leaves the device state.
C7_Rejection ==
    [][ \A text \in Utterances :
          (TurnRuns(text) /\ pendingCommands # Null
                          /\ CleanedText(text) \in rejectionKeywords) =>
              /\ pendingCommands' = Null
              /\ messages' = messages \o <<UserMsg(text), AiText(RepromptText)>>
              /\ isTtsEnabled => Spoken(RepromptText)
              /\ NoRemoteCall
              /\ smartHomeState' = smartHomeState ]_vars

C7_Witness ==
    /\ Len(messages) >= 2
    /\ messages[Len(messages)] = AiText(RepromptText)
    /\ pendingCommands = Null
    /\ synth = <<Utterance(RepromptText)>>

\* the words of a text: its maximal runs of non-space characters
NumWords(s) ==
    Cardinality({i \in 1..Len(s) : ~IsSpace(s[i]) /\ (i = 1 \/ IsSpace(s[i - 1]))})

\* the pending commands were executed in this step, after the user's message
ExecutedAfter(text) ==
    /\ smartHomeState' = ApplyCommands(smartHomeState, pendingCommands[1])
    /\ messages' = messages \o <<UserMsg(text), ExecutionSuccess(pendingCommands[1])>>

\* C8: with a proposal pending, a turn whose cleaned text has at most 4 words
\* and holds an affirmative keyword as a whole word (and is no rejection
\* keyword) executes the pending commands, clears the proposal, and makes no
\* remote call.
C8_SimpleConfirmation ==
    [][ \A text \in Utterances :
          (TurnRuns(text) /\ pendingCommands # Null
                          /\ CleanedText(text) \notin rejectionKeywords
                          /\ NumWords(CleanedText(text)) <= 4
                          /\ IsAffirmative(CleanedText(text))) =>
              /\ ExecutedAfter(text)
              /\ pendingCommands' = Null
              /\ NoRemoteCall ]_vars

\* C8 with the length as the code measures it, cleanedText.split(/\s+/).length
C8_SimpleConfirmationBySplit ==
    [][ \A text \in Utterances :
          (TurnRuns(text) /\ pendingCommands # Null
                          /\ CleanedText(text) \notin rejectionKeywords
                          /\ WordCount(CleanedText(text)) <= 4
                          /\ IsAffirmative(CleanedText(text))) =>
              /\ ExecutedAfter(text)
              /\ pendingCommands' = Null
              /\ NoRemoteCall ]_vars

\* a short affirmative turn found a proposal pending and sent it to the service
C8_Witness ==
    /\ Len(inflight) = 1
    /\ inflight[1].pendingCommands # Null
    /\ NumWords(CleanedText(inflight[1].text)) <= 4
    /\ inflight[1].isAffirmative

\* the i-th outstanding call settles with a non-empty command list
SettlesWithCommands(i, outcome) ==
    /\ outcome.kind = "json"
    /\ outcome.raw # <<>>
    /\ Len(inflight') < Len(inflight)
    /\ AnalyzeSettles(i, outcome)

\* C9: a non-empty extraction result executes the pending commands (and
\* clears the proposal) iff a proposal was pending for the turn, the result
\* equals it under areCommandsEqual and the turn's text was affirmative;
\* otherwise nothing is executed, the result becomes the pending proposal and
\* exactly one AI_PROPOSAL message carrying it is appended.
C9_ResolveExtraction ==
    [][ \A i \in 1..MaxTurns, outcome \in Outcomes :
          SettlesWithCommands(i, outcome) =>
              LET turn == inflight[i]
                  newCommands == ExtractCommands(outcome.raw)
                  confirms == /\ turn.pendingCommands # Null
                              /\ areCommandsEqual(turn.pendingCommands[1], newCommands)
                              /\ IsAffirmative(CleanedText(turn.text))
              IN  IF confirms
                  THEN /\ smartHomeState' =
                              ApplyCommands(smartHomeState, turn.pendingCommands[1])
                       /\ messages' = Append(messages,
                              ExecutionSuccess(turn.pendingCommands[1]))
                       /\ pendingCommands' = Null
                  ELSE /\ smartHomeState' = smartHomeState
                       /\ pendingCommands' = Some(newCommands)
                       /\ messages' = Append(messages, AiProposal(newCommands)) ]_vars

\* a proposal was confirmed through the service: a long affirmative text, then
\* the execution message
C9_Witness ==
    /\ Len(messages) = 4
    /\ messages[3].type = "USER_TEXT"
    /\ WordCount(CleanedText(messages[3].text)) > 4
    /\ messages[4].type = "EXECUTION_SUCCESS"
    /\ pendingCommands = Null
    /\ smartHomeState.thermostatTemp = 75

\* a turn that gets as far as the extraction call
ReachesExtraction(text) ==
    /\ TurnRuns(text)
    /\ CleanedText(text) # RestartWord
    /\ ~(pendingCommands # Null /\ CleanedText(text) \in rejectionKeywords)
    /\ ~(pendingCommands # Null /\ IsAffirmative(CleanedText(text))
                                /\ WordCount(CleanedText(text)) <= 4)

\* C10: when the extraction call throws, the turn appends exactly one
\* SYSTEM_INFO message with the connectivity text, speaks one apology, leaves
\* the pending proposal and the device state, clears isProcessing, and sends
\* nothing again.
C10_RemoteFailure ==
    [][ /\ \A i \in 1..MaxTurns :
             AnalyzeSettles(i, [kind |-> "throw", raw |-> <<>>]) =>
                 /\ messages' = Append(messages, SystemInfo(ConnectFailText))
                 /\ inflight[i].isTtsEnabled => Spoken(ConnectFailText)
                 /\ pendingCommands' = pendingCommands
                 /\ smartHomeState' = smartHomeState
                 /\ ~isProcessing'
                 /\ inflight' = RemoveAt(inflight, i)
                 /\ chatSession' = chatSession
        /\ \A text \in Utterances :
             (ReachesExtraction(text) /\ chatSession = Null /\ ~apiKey) =>
                 /\ messages' = messages \o <<UserMsg(text), SystemInfo(ConnectFailText)>>
                 /\ isTtsEnabled => Spoken(ConnectFailText)
                 /\ pendingCommands' = pendingCommands
                 /\ smartHomeState' = smartHomeState
                 /\ ~isProcessing'
                 /\ NoRemoteCall ]_vars

\* a call that found a proposal pending threw, and the proposal is still there
C10_Witness ==
    /\ Len(messages) = 4
    /\ messages[4] = SystemInfo(ConnectFailText)
    /\ pendingCommands # Null
    /\ ~isProcessing
    /\ inflight = <<>>

\* C11: a turn that arrives while the speaking flag is true has no effect: no
\* message is appended, the proposal and the device state are unchanged, no
\* remote call is made, nothing is spoken, and the conversation is not reset
\* even when the text is "restart".
C11_SafetyGate ==
    [][ \A text \in Utterances :
          (HandleUserMessage(text) /\ isSpeaking) =>
              /\ messages' = messages
              /\ pendingCommands' = pendingCommands
              /\ smartHomeState' = smartHomeState
              /\ NoRemoteCall
              /\ synth' = synth /\ cancelled' = cancelled /\ isSpeaking'
              /\ isProcessing' = isProcessing ]_vars

\* the second turn arrived while the proposal of the first was being spoken
C11_Witness ==
    /\ turns = 2
    /\ isSpeaking
    /\ Len(messages) = 2
    /\ messages[2].type = "AI_PROPOSAL"
    /\ pendingCommands # Null
    /\ synth = <<Utterance(ProposalSpeech(pendingCommands[1]))>>

\* ---- the executor (ExecSpec) ----

\* a turn that resolves the pending proposal by executing it
ExecutionTurn(text) ==
    /\ TurnRuns(text)
    /\ pendingCommands # Null
    /\ pendingCommands' = Null
    /\ CleanedText(text) # RestartWord
    /\ CleanedText(text) \notin rejectionKeywords

\* the messages a step appended
Appended == SubSeq(messages', Len(messages) + 1, Len(messages'))

\* C12: every execution of a command list of length N >= 1 appends exactly one
\* EXECUTION_SUCCESS message, carrying the single command's summary when
\* N = 1 and the count N otherwise, however many of the commands matched a
\* device, zero included.
C12_OneSuccessMessage ==
    [][ \A text \in Utterances :
          ExecutionTurn(text) =>
              LET commands == pendingCommands[1]
                  N == Len(commands)
              IN  /\ N >= 1
                  /\ Len(messages') = Len(messages) + 2
                  /\ Appended[1] = UserMsg(text)
                  /\ Appended[2].type = "EXECUTION_SUCCESS"
                  /\ Appended[2].role = "system"
                  /\ Appended[2].text =
                        IF N = 1 THEN <<"Executed: ", commands[1].summary>>
                        ELSE <<"Executed: ", Digits[N + 1], " actions executed.">> ]_vars

\* two commands that match no device were executed: one message, no change
C12_Witness ==
    /\ Len(messages) = 4
    /\ messages[2].commandData # Null
    /\ Len(messages[2].commandData[1]) = 2
    /\ \A i \in 1..2 : messages[2].commandData[1][i].action = A_OPEN
    /\ messages[4].type = "EXECUTION_SUCCESS"
    /\ messages[4].text = <<"Executed: ", "2", " actions executed.">>
    /\ smartHomeState \in ExecStates
    /\ pendingCommands = Null

\* the thermostat rule as stated: the temperature parameter, the generic
\* value parameter only when temperature is absent, taken iff Number() of it
\* is a number
StatedThermostatParam(cmd) ==
    IF HasKey(cmd.parameters, "temperature")
    THEN GetParam(cmd.parameters, "temperature")
    ELSE GetParam(cmd.parameters, "value")

StatedTemp(temp, cmd) ==
    LET val == StatedThermostatParam(cmd)
    IN  IF /\ (DeviceOf(cmd) = T_thermostat \/ ToUpperCase(cmd.action) = A_SET_TEMPERATURE)
           /\ val # Null
           /\ NumberOf(val[1]) # Null
        THEN NumberOf(val[1])[1]
        ELSE temp

RECURSIVE StatedTempAll(_, _)
StatedTempAll(temp, commands) ==
    IF commands = <<>> THEN temp
    ELSE StatedTempAll(StatedTemp(temp, Head(commands)), Tail(commands))

\* C13: a command that matches the thermostat (device 'thermostat' or action
\* SET_TEMPERATURE, case-normalized) sets thermostatTemp to the numeric value
\* of its temperature parameter (of its value parameter when temperature is
\* absent) iff that value is numeric-coercible, and leaves it otherwise.
C13_Thermostat ==
    [][ \A text \in Utterances :
          ExecutionTurn(text) =>
              smartHomeState'.thermostatTemp =
                  StatedTempAll(smartHomeState.thermostatTemp, pendingCommands[1]) ]_vars

\* no command of the list carries the temperature 0
NoZeroTemperature(commands) ==
    \A i \in 1..Len(commands) :
        GetParam(commands[i].parameters, "temperature") # Some(Num(0))

\* C13 for every proposal but those with the temperature 0
C13_ThermostatNonZero ==
    [][ \A text \in Utterances :
          (ExecutionTurn(text) /\ NoZeroTemperature(pendingCommands[1])) =>
              smartHomeState'.thermostatTemp =
                  StatedTempAll(smartHomeState.thermostatTemp, pendingCommands[1]) ]_vars

\* SET_TEMPERATURE with temperature "0" and no value was executed and the
\* thermostat kept its reading
C13_Witness ==
    /\ Len(messages) = 4
    /\ messages[4].type = "EXECUTION_SUCCESS"
    /\ messages[2].commandData =
          Some(ExtractCommands(<<RawCommand(A_SET_TEMPERATURE, Null, Some(V_0), Null)>>))
    /\ smartHomeState.thermostatTemp = 72

\* the light rule as stated, on the device parameter as the reply carried it
StatedLightMatch(cmd) ==
    LET d == GetParam(cmd.parameters, "device")
        device == IF d = Null THEN <<>> ELSE ToLowerCase(StringOf(d[1]))
    IN  \/ device = T_living_room_light
        \/ /\ Includes(device, T_living)
           /\ Includes(device, T_light) \/ Includes(device, T_lamp)

StatedLight(light, cmd) ==
    LET action == ToUpperCase(cmd.action)
    IN  IF ~StatedLightMatch(cmd) THEN light
        ELSE IF action \in {A_TURN_ON, A_TURN_ON \o A_DEVICE} THEN TRUE
        ELSE IF action \in {A_TURN_OFF, A_TURN_OFF \o A_DEVICE} THEN FALSE
        ELSE light

RECURSIVE StatedLightAll(_, _)
StatedLightAll(light, commands) ==
    IF commands = <<>> THEN light
    ELSE StatedLightAll(StatedLight(light, Head(commands)), Tail(commands))

\* C14: a command matches the light iff its lower-cased device equals
\* 'living_room_light' or contains 'living' and one of 'light'/'lamp'; a
\* matching command sets livingRoomLight to true for TURN_ON(_DEVICE), to
\* false for TURN_OFF(_DEVICE), case-normalized, and any other command
\* leaves it.
C14_LivingRoomLight ==
    [][ \A text \in Utterances :
          ExecutionTurn(text) =>
              smartHomeState'.livingRoomLight =
                  StatedLightAll(smartHomeState.livingRoomLight, pendingCommands[1]) ]_vars

\* TURN_ON with device "Living Room Lamp" was executed on the dark room
C14_Witness ==
    /\ Len(messages) = 4
    /\ messages[4].type = "EXECUTION_SUCCESS"
    /\ messages[2].commandData =
          Some(ExtractCommands(<<RawCommand(A_TURN_ON, Some(D_living_room_lamp), Null, Null)>>))
    /\ smartHomeState =
          [livingRoomLight |-> TRUE, frontDoorLocked |-> TRUE, thermostatTemp |-> 72]

\* ---- areCommandsEqual (EqSpec) ----

\* the parameters of a command as a mapping: its set of key-value entries
Mapping(cmd) == { cmd.parameters[j] : j \in 1..Len(cmd.parameters) }

\* equal length and, position by position, equal action and equal mapping
StatedEqual(cmdsA, cmdsB) ==
    /\ Len(cmdsA) = Len(cmdsB)
    /\ \A i \in 1..Len(cmdsA) :
          /\ cmdsA[i].action = cmdsB[i].action
          /\ Mapping(cmdsA[i]) = Mapping(cmdsB[i])

\* the command lists the replies of EqReplies become
EqLists == { ExtractCommands(raw) : raw \in EqReplies }

\* C15: areCommandsEqual is reflexive, symmetric and insensitive to the order
\* of the keys of each parameters mapping; it compares action and parameters
\* only (not summary), position by position, and is false for lists of
\* different length.
C15_CommandEquality ==
    pendingCommands # Null =>
        LET A == pendingCommands[1]
        IN  /\ areCommandsEqual(A, A)
            /\ \A B \in EqLists :
                  /\ areCommandsEqual(A, B) = areCommandsEqual(B, A)
                  /\ areCommandsEqual(A, B) = StatedEqual(A, B)
                  /\ Len(A) # Len(B) => ~areCommandsEqual(A, B)

\* the reply with the keys swapped and another summary confirmed the proposal
C15_Witness ==
    /\ Len(messages) = 4
    /\ messages[2].commandData = Some(ExtractCommands(<<RawTemp>>))
    /\ ExtractCommands(<<RawTempSwapped>>) # ExtractCommands(<<RawTemp>>)
    /\ areCommandsEqual(messages[2].commandData[1], ExtractCommands(<<RawTempSwapped>>))
    /\ messages[4] = ExecutionSuccess(ExtractCommands(<<RawTemp>>))
    /\ WordCount(CleanedText(messages[3].text)) > 4

\* ---- the speaking flag (AppSpec) ----

\* a step in which speak() handed an utterance to the synthesizer
SpeakCalled ==
    /\ synth' # synth
    /\ Len(synth') >= Len(synth)
    /\ synth' # <<>>
    /\ synth'[Len(synth')].handlers

\* C16: with speech output enabled the speaking flag becomes true at the
\* speak(text) call and is cleared only when the 500 ms settle delay that
\* follows the utterance's completion or error has elapsed, on the
\* completion path and on the error path alike.
C16_SpeakingLifetime ==
    [][ /\ SpeakCalled => isSpeaking'
        /\ (isSpeaking /\ ~isSpeaking') => (OnSettleTimer /\ settleTimers > 0) ]_vars

\* C16 on the completion path alone: leaving error events aside, only the
\* settle timeout clears the flag
C16_CompletionPath ==
    [][ /\ SpeakCalled => isSpeaking'
        /\ (isSpeaking /\ ~isSpeaking' /\ ~SynthError
                       /\ ~CancelledEvent("error")) => OnSettleTimer ]_vars

\* an utterance failed and the flag is down with no settle delay behind it
C16_Witness ==
    /\ ~isSpeaking
    /\ synth = <<>>
    /\ settleTimers = 0
    /\ cancelled = 0
    /\ turns = 1
    /\ Len(messages) = 2
    /\ messages[2] = SystemInfo(ConnectFailText)
    /\ ~apiKey

\* ---- the pending proposal (AppSpec) ----

\* a message that proposes a command list or resolves a proposal: a proposal
\* with commands, an execution, the re-prompt that answers a rejection
ProposesOrResolves(m) ==
    \/ m.type = "AI_PROPOSAL" /\ m.commandData # Null
    \/ m.type = "EXECUTION_SUCCESS"
    \/ m = AiText(RepromptText)

\* the position of the last such message of the log, 0 when there is none
LastProposalEvent ==
    LET at == {i \in 1..Len(messages) : ProposesOrResolves(messages[i])}
    IN  IF at = {} THEN 0 ELSE CHOOSE i \in at : \A j \in at : j <= i

\* C17: pendingProposal is non-null only if the log holds an AI_PROPOSAL
\* message carrying exactly that list with no execution, rejection,
\* replacement or reset after it; at most one proposal is pending.
C17_PendingProposal ==
    /\ Len(pendingCommands) <= 1
    /\ pendingCommands # Null =>
          /\ LastProposalEvent > 0
          /\ messages[LastProposalEvent] = AiProposal(pendingCommands[1])

\* a second proposal replaced the first and is the pending one
C17_Witness ==
    /\ Len(messages) = 4
    /\ messages[2].type = "AI_PROPOSAL" /\ messages[2].commandData # Null
    /\ messages[4].type = "AI_PROPOSAL" /\ messages[4].commandData # Null
    /\ messages[4].commandData # messages[2].commandData
    /\ pendingCommands = messages[4].commandData

\* ---- turns and the extraction call (AppSpec) ----

\* C18: between the start of a turn and its last write, the remote extraction
\* call included, no other turn or reset is handled: while a call is
\* outstanding the log, the proposal and the device state are written only by
\* the completion of that call, and at most one call is outstanding.
C18_TurnAtomicity ==
    [][ /\ Len(inflight') <= 1
        /\ inflight # <<>> =>
              \/ inflight' = <<>>
              \/ UNCHANGED <<messages, pendingCommands, smartHomeState, inflight>> ]_vars

\* two turns are waiting for their extraction calls
C18_Witness ==
    /\ Len(inflight) = 2
    /\ isProcessing
    /\ ~isSpeaking
    /\ Len(messages) = 2
    /\ messages[1].type = "USER_TEXT" /\ messages[2].type = "USER_TEXT"

\* ---- the silence window (RecSpec) ----

\* the transcripts of results lo..hi, joined
RECURSIVE Concat(_, _, _)
Concat(res, lo, hi) ==
    IF lo > hi THEN <<>> ELSE Concat(res, lo, hi - 1) \o res[hi]

\* C19: every result batch that is not ignored replaces the armed silence
\* timer by one for this batch, so one timer at most is pending; the finalize
\* callback fires only when no fragment arrived after the batch whose text it
\* delivers, and that text is the results from the cursor to the end of that
\* batch, joined.
C19_SilenceWindow ==
    [][ /\ \A frag \in Fragments :
             (OnResult(frag) /\ ~shouldIgnoreInputRef) =>
                 /\ silenceTimer'.armed
                 /\ silenceTimer'.len = Len(results')
                 /\ silenceTimer'.segment =
                        Concat(results', processedIndex + 1, Len(results'))
                 /\ transcript' = silenceTimer'.segment
        /\ finalized' # finalized =>
             /\ silenceTimer.armed /\ ~silenceTimer'.armed
             /\ silenceTimer.len = Len(results)
             /\ finalized' = Append(finalized,
                    Concat(results, silenceTimer.from + 1, Len(results))) ]_vars

\* three batches arrived in a row and were delivered as one utterance
C19_Witness ==
    /\ Len(finalized) = 1
    /\ Len(results) = 3
    /\ finalized[1] = Concat(results, 1, 3)
    /\ processedIndex = 3
    /\ ~silenceTimer.armed

\* ---- stopping and finalization (RecSpec) ----

\* C20: after stopListening() no finalize callback fires until
\* startListening() is called again, even when the platform delivers a
\* further result batch between the stop request and the session-end event.
C20_StopCancelsFinalization ==
    [][ (stopRequested /\ stopRequested') => finalized' = finalized ]_vars

\* C20 for the timer that was pending at the stop request: stopListening()
\* leaves no timer armed
C20_StopClearsTimer ==
    [][ (~stopRequested /\ stopRequested') => ~silenceTimer'.armed ]_vars

\* C20 for a session that runs although stop is the latest request (started
\* by the restart timeout the stop did not cancel)
C20_NoFinalizationWhileStopped ==
    [][ (stopRequested /\ stopRequested' /\ recState = "running") =>
            finalized' = finalized ]_vars

\* an utterance was finalized while stop was the latest request and before
\* the session-end event
C20_Witness ==
    /\ stopRequested
    /\ ~shouldBeListening
    /\ recState = "ending"
    /\ Len(finalized) = 1
    /\ batches = 1

\* ---- empty extraction results (GreetSpec) ----

\* the greeting test as stated, on the cleaned text: a greeting phrase alone,
\* or a greeting phrase and then further words
StatedGreeting(cleaned) ==
    \E g \in greetings :
        /\ Len(cleaned) >= Len(g)
        /\ SubSeq(cleaned, 1, Len(g)) = g
        /\ Len(cleaned) > Len(g) => cleaned[Len(g) + 1] = " "

\* the i-th outstanding call settles with no result or an empty list
SettlesEmpty(i, outcome) ==
    /\ outcome.kind = "noText" \/ (outcome.kind = "json" /\ outcome.raw = <<>>)
    /\ Len(inflight') < Len(inflight)
    /\ AnalyzeSettles(i, outcome)

\* C21: when the extraction call returns an empty list or no result, exactly
\* one AI message is appended, the fixed greeting when the cleaned text is or
\* begins with a greeting phrase and the fixed could-not-understand response
\* otherwise, and neither step of the turn changes the pending proposal or
\* the device state.
C21_EmptyExtraction ==
    [][ /\ \A i \in 1..MaxTurns, outcome \in GreetOutcomes :
             SettlesEmpty(i, outcome) =>
                 /\ Len(messages') = Len(messages) + 1
                 /\ Appended[1].role = "ai"
                 /\ RenderedText(Appended[1]) =
                        IF StatedGreeting(CleanedText(inflight[i].text))
                        THEN GreetingText ELSE NotUnderstoodText
                 /\ pendingCommands' = pendingCommands
                 /\ smartHomeState' = smartHomeState
        /\ \A text \in GreetUtterances :
             ReachesExtraction(text) =>
                 /\ pendingCommands' = pendingCommands
                 /\ smartHomeState' = smartHomeState ]_vars

\* with a proposal pending, "Hey lamp" got the greeting and "hint" did not
C21_Witness ==
    /\ pendingCommands # Null
    /\ Len(messages) = 4
    /\ messages[2] = AiProposal(pendingCommands[1])
    /\ messages[3].text \in { <<"H","e","y"," ","l","a","m","p">>, <<"h","i","n","t">> }
    /\ messages[4] = IF messages[3].text = <<"h","i","n","t">>
                     THEN AiNoCommands ELSE AiText(GreetingText)
    /\ inflight = <<>>

\* ---- unmatched commands (ExecSpec) ----

\* the device a command names, lower-cased; empty when it names none
StatedDevice(cmd) ==
    LET d == GetParam(cmd.parameters, "device")
    IN  IF d = Null THEN <<>> ELSE ToLowerCase(StringOf(d[1]))

StatedLockMatch(cmd) ==
    \/ StatedDevice(cmd) = T_front_door_lock
    \/ /\ Includes(StatedDevice(cmd), T_front)
       /\ Includes(StatedDevice(cmd), T_door) \/ Includes(StatedDevice(cmd), T_lock)

StatedThermostatMatch(cmd) ==
    StatedDevice(cmd) = T_thermostat \/ ToUpperCase(cmd.action) = A_SET_TEMPERATURE

\* C22: executing a list leaves every device field that none of its commands
\* matches as it was (so a command that matches no device changes nothing and
\* a command that matches one device changes that device's field at most),
\* and the execution never fails: on every pending proposal the executor
\* yields a device state, and every execution appends its success message.
C22_UnmatchedIgnored ==
    /\ [][ \A text \in Utterances :
              ExecutionTurn(text) =>
                  LET commands == pendingCommands[1]
                      none(Match(_)) == \A i \in 1..Len(commands) : ~Match(commands[i])
                  IN  /\ none(StatedLightMatch) =>
                            smartHomeState'.livingRoomLight = smartHomeState.livingRoomLight
                      /\ none(StatedLockMatch) =>
                            smartHomeState'.frontDoorLocked = smartHomeState.frontDoorLocked
                      /\ none(StatedThermostatMatch) =>
                            smartHomeState'.thermostatTemp = smartHomeState.thermostatTemp
                      /\ smartHomeState' \in [livingRoomLight : BOOLEAN,
                                              frontDoorLocked : BOOLEAN,
                                              thermostatTemp : Nat]
                      /\ messages'[Len(messages')].type = "EXECUTION_SUCCESS" ]_vars
    /\ [](pendingCommands # Null =>
              ApplyCommands(smartHomeState, pendingCommands[1]) \in
                  [livingRoomLight : BOOLEAN, frontDoorLocked : BOOLEAN,
                   thermostatTemp : Nat])

\* OPEN on the garage was executed: the success message, and no field changed
C22_Witness ==
    /\ Len(messages) = 4
    /\ messages[2].commandData =
          Some(ExtractCommands(<<RawCommand(A_OPEN, Some(D_garage), Null, Null)>>))
    /\ messages[4].type = "EXECUTION_SUCCESS"
    /\ smartHomeState =
          [livingRoomLight |-> TRUE, frontDoorLocked |-> FALSE, thermostatTemp |-> 68]

\* ---- speech output switched off (TtsSpec) ----

\* C23: switching speech output off cancels the synthesis in flight and
\* clears the speaking flag at once, and while speech output is off no
\* speak(text) sets the speaking flag: the recognizer is never gated while
\* speech output is off.
C23_TtsOff ==
    [][ /\ (isTtsEnabled /\ ~isTtsEnabled') => (synth' = <<>> /\ ~isSpeaking')
        /\ (~isTtsEnabled /\ ~isTtsEnabled') => (isSpeaking' => isSpeaking)
        /\ ~isTtsEnabled' => ~isSpeaking' ]_vars

\* C23, the switch itself: it empties the synthesizer and clears the flag
C23_DisableCancels ==
    [][ (isTtsEnabled /\ ~isTtsEnabled') => (synth' = <<>> /\ ~isSpeaking') ]_vars

\* C23 for the turns that begin while speech output is off
C23_TurnsBegunWhileOff ==
    [][ \A text \in TtsUtterances :
          (HandleUserMessage(text) /\ ~isTtsEnabled) =>
              (synth' = synth /\ isSpeaking' = isSpeaking) ]_vars

\* speech output is off, and the reply to a turn that began before the switch
\* is being spoken with the speaking flag up
C23_Witness ==
    /\ ~isTtsEnabled
    /\ isSpeaking
    /\ synth # <<>>
    /\ synth[1].handlers
    /\ inflight = <<>>

\* ---- utterances at the synthesizer (TtsSpec) ----

\* C24: at most one utterance is queued or playing at the platform
\* synthesizer at any time, after any sequence of speak calls and session
\* toggles.
C24_OneInFlight == Len(synth) <= 1

\* C24 for speak(text) alone: after the call its utterance is the only one
C24_SpeakCancels == [][ SpeakCalled => Len(synth') = 1 ]_vars

\* a reply is being spoken and the session was toggled on: the silent
\* utterance is queued behind it
C24_Witness ==
    /\ Len(synth) = 2
    /\ synth[1].handlers
    /\ ~synth[2].handlers
    /\ isSpeaking
    /\ isActiveSession

\* ---- missing credentials (AppSpec) ----

\* C25: without the API key no remote session is ever created and nothing is
\* ever sent; every turn that gets as far as analyzeCommand fails and is
\* answered like any failed call; the absence itself is not shown: the log
\* holds the user's texts and the connectivity message only, and is empty
\* until a turn is made.
C25_MissingCredentials ==
    /\ [](~apiKey =>
            /\ chatSession = Null
            /\ inflight = <<>>
            /\ ~isProcessing
            /\ turns = 0 => messages = <<>>
            /\ \A i \in 1..Len(messages) :
                  \/ messages[i].type = "USER_TEXT"
                  \/ messages[i] = SystemInfo(ConnectFailText))
    /\ [][ \A text \in Utterances :
              (~apiKey /\ ReachesExtraction(text)) =>
                  messages' = messages \o <<UserMsg(text), SystemInfo(ConnectFailText)>> ]_vars

\* without the key two turns were made and both failed
C25_Witness ==
    /\ ~apiKey
    /\ chatSession = Null
    /\ turns = 2
    /\ Len(messages) = 4
    /\ messages[2] = SystemInfo(ConnectFailText)
    /\ messages[4] = SystemInfo(ConnectFailText)

\* ---- confirm before execute (AppSpec) ----

\* a step that executes: the device state changes or a success message is
\* appended
Executes ==
    \/ smartHomeState' # smartHomeState
    \/ /\ Len(messages') > 0
       /\ messages'[Len(messages')].type = "EXECUTION_SUCCESS"
       /\ messages' # messages

\* the step executes `commands` and proposes nothing
ExecutesExactly(commands, log) ==
    /\ smartHomeState' = ApplyCommands(smartHomeState, commands)
    /\ messages' = Append(log, ExecutionSuccess(commands))
    /\ pendingCommands' = Null

\* C26: the device state changes only by executing the command list that was
\* the pending proposal when the executing turn began, and only in a turn
\* whose text is affirmative; a turn never executes the commands its own
\* extraction call returned: it executes the list proposed before it, and a
\* turn that began with no proposal executes nothing.
C26_ConfirmBeforeExecute ==
    [][ /\ Executes =>
              \/ \E text \in Utterances :
                    /\ TurnRuns(text)
                    /\ pendingCommands # Null
                    /\ IsAffirmative(CleanedText(text))
                    /\ ExecutesExactly(pendingCommands[1], Append(messages, UserMsg(text)))
              \/ \E i \in 1..Len(inflight) :
                    /\ inflight' = RemoveAt(inflight, i)
                    /\ inflight[i].pendingCommands # Null
                    /\ IsAffirmative(CleanedText(inflight[i].text))
                    /\ ExecutesExactly(inflight[i].pendingCommands[1], messages)
        /\ \A text \in Utterances :
              (HandleUserMessage(text) /\ Len(inflight') > Len(inflight)) =>
                  inflight'[Len(inflight')].pendingCommands = pendingCommands ]_vars

\* the light was proposed in one turn and switched on by "Yes please" in the
\* next
C26_Witness ==
    /\ Len(messages) = 4
    /\ messages[2] = AiProposal(ExtractCommands(<<RawLight>>))
    /\ messages[3] = UserMsg(<<"Y","e","s"," ","p","l","e","a","s","e">>)
    /\ messages[4] = ExecutionSuccess(ExtractCommands(<<RawLight>>))
    /\ smartHomeState.livingRoomLight
    /\ pendingCommands = Null

\* ---- the cursor across sessions (RecSpec) ----

\* C27: the read cursor never exceeds the number of results of the current
\* session's result stream, also after an automatic restart began a fresh
\* stream (so that a fragment of the restarted session is delivered after its
\* silence window).
C27_CursorValid == processedIndex <= Len(results)

\* C27 within a stream: no step but the start of a fresh stream puts the
\* cursor beyond the results
C27_WithinSession ==
    [][ (processedIndex <= Len(results) /\ ~SessionStarts) =>
            processedIndex' <= Len(results') ]_vars

\* two results were delivered, the session ended and was restarted; the first
\* fragment of the new session came with the ignore flag false, its silence
\* window passed, and nothing was delivered: the cursor is still beyond it
C27_Witness ==
    /\ batches = 3
    /\ Len(results) = 1
    /\ results[1] = <<"o", "k">>
    /\ processedIndex = 2
    /\ Len(finalized) = 1
    /\ skipped = {}
    /\ recState = "running"
    /\ shouldBeListening
    /\ ~silenceTimer.armed
    /\ transcript = <<>>

\* ---- at-most-once delivery (RecSpec) ----

\* C28: within one recognizer session a result that was delivered in a
\* finalized utterance, or skipped while input was ignored, is in no later
\* finalized utterance, whatever the sequence of result, error, end, start
\* and stop events, startListening() on a running or stopping session
\* included.
C28_AtMostOnce ==
    [][ finalized' # finalized =>
            TimerPositions \cap (delivered \cup skipped) = {} ]_vars

\* a cursor within the current stream moves back at startListening() only
\* (toggleSession is its one caller), where it is set to 0
C28_CursorMovesBackAtStart ==
    [][ (processedIndex' < processedIndex /\ processedIndex <= Len(results)) =>
            (~isActiveSession /\ isActiveSession' /\ processedIndex' = 0) ]_vars

\* one session, two result events, no result skipped: the first result was
\* delivered alone and then again at the head of the second utterance
C28_Witness ==
    /\ batches = 2
    /\ Len(results) = 2
    /\ skipped = {}
    /\ Len(finalized) = 2
    /\ finalized[1] = results[1]
    /\ finalized[2] = results[1] \o results[2]
    /\ results[1] = <<"o", "k">>
    /\ delivered = {1, 2}

\* ---- one execution for one proposal (EqSpec) ----

\* C29: a pending proposal is executed once at most, in every interleaving of
\* turns, a turn handled while an earlier turn's extraction call is
\* outstanding included: between two execution-success messages of the log
\* there is a proposal.
C29_ExecutedOnce ==
    \A i, j \in 1..Len(messages) :
        (i < j /\ messages[i].type = "EXECUTION_SUCCESS"
               /\ messages[j].type = "EXECUTION_SUCCESS") =>
            \E k \in (i + 1)..(j - 1) :
                messages[k].type = "AI_PROPOSAL" /\ messages[k].commandData # Null

\* each turn takes the proposal pending at its first step as its own
C29_TurnCapturesProposal ==
    [][ \A text \in EqUtterances :
          (HandleUserMessage(text) /\ Len(inflight') > Len(inflight)) =>
              inflight'[Len(inflight')].pendingCommands = pendingCommands ]_vars

\* one proposal, two turns that overlapped, two executions
C29_Witness ==
    /\ Len(messages) = 6
    /\ messages[2].type = "AI_PROPOSAL"
    /\ messages[3].type = "USER_TEXT"
    /\ messages[4].type = "USER_TEXT"
    /\ messages[5] = ExecutionSuccess(messages[2].commandData[1])
    /\ messages[6] = ExecutionSuccess(messages[2].commandData[1])
    /\ pendingCommands = Null

\* ---- resets and outstanding calls (AppSpec) ----

\* C30: a reset is not undone by the completion of an extraction call begun
\* before it: such a completion sets no proposal and appends nothing to the
\* cleared log. Every turn begun after the reset puts the user's text first,
\* so the log, when it is not empty, begins with a user text, and a proposal
\* is pending only if a user text precedes it in the log.
C30_ResetNotUndone ==
    /\ messages # <<>> => messages[1].type = "USER_TEXT"
    /\ pendingCommands # Null =>
          (messages # <<>> /\ messages[1].type = "USER_TEXT")

\* the reset itself: it clears the log and the proposal and opens a new chat
C30_ResetClears ==
    [][ \A text \in Utterances :
          (TurnRuns(text) /\ CleanedText(text) = RestartWord) =>
              (messages' = <<>> /\ pendingCommands' = Null /\ inflight' = inflight) ]_vars

\* "lamp on" was sent, "Restart." cleared the conversation, and the reply to
\* "lamp on" then came: its proposal is pending and alone in the log
C30_Witness ==
    /\ turns = 2
    /\ chatSession = Some(0)
    /\ inflight = <<>>
    /\ pendingCommands # Null
    /\ messages = <<AiProposal(pendingCommands[1])>>

\* ---- callbacks of superseded utterances (AppSpec) ----

\* C31: the speaking flag is true whenever an utterance of speak() is
\* playing: no completion or error callback and no settle timeout of an
\* utterance that a later speak(text) superseded clears the flag while the
\* later utterance is in progress.
C31_GateWhilePlaying ==
    (synth # <<>> /\ Head(synth).handlers) => isSpeaking

\* while an utterance plays the flag is cleared by nothing but the error
\* callback of a cancelled utterance or a settle timeout set before it
C31_OnlyStaleCallbacks ==
    [][ (synth # <<>> /\ synth' = synth /\ isSpeaking /\ ~isSpeaking') =>
            (cancelled' < cancelled \/ settleTimers' < settleTimers) ]_vars

\* two replies came one after the other; the second is playing, the callback
\* of the first has run, and the flag is down
C31_Witness ==
    /\ turns = 2
    /\ inflight = <<>>
    /\ Len(synth) = 1
    /\ synth[1].handlers
    /\ ~isSpeaking
    /\ cancelled = 0
    /\ settleTimers = 0

\* ---- the session flag and the listening intent (RecSpec) ----

\* C32: in every reachable state isActiveSession is true iff shouldBeListening
\* is true, so the recognizer is never restarted and capturing while the UI
\* shows the session as stopped, also after a recognizer error other than
\* not-allowed, no-speech or aborted.
C32_SessionFlagAgrees == isActiveSession <=> shouldBeListening

\* the two agree after every step but the one in which such an error is
\* surfaced
C32_AgreeButForErrors ==
    [][ ((isActiveSession <=> shouldBeListening)
            /\ ~(error' # error /\ error' \notin {"null", "Microphone access denied."})) =>
            (isActiveSession' <=> shouldBeListening') ]_vars

\* after a network error the UI shows the session as stopped; the recognizer
\* was restarted, is running, and an utterance was captured and delivered
C32_Witness ==
    /\ ~isActiveSession
    /\ shouldBeListening
    /\ ~stopRequested
    /\ recState = "running"
    /\ isListening
    /\ Len(finalized) = 1
    /\ batches = 1
====
